---- MODULE Spec2Model ----
(***************************************************************************)
(* Model of the infradar dashboard front end: the REST client (request), *)
(* the Layout guard, the ClusterProvider, the ThemeProvider and the        *)
(* id-parameterised pages.  Browser state (localStorage, location, the     *)
(* document root's class list, the prefers-color-scheme media query) is    *)
(* part of the state.                                                      *)
(***************************************************************************)
EXTENDS Bags, Integers, Sequences, FiniteSets, TLC

VARIABLES
    token,        \* localStorage entry 'token' (Null when absent)
    href,         \* window.location.href, as a path
    reqs,         \* the calls of request() made by direct callers, per slot
    themeStore,   \* localStorage entry 'infradar-theme'
    tMounted,     \* a ThemeProvider is mounted
    mode,         \* ThemeProvider state `mode`
    resolved,     \* ThemeProvider state `resolved`
    sysDark,      \* matchMedia('(prefers-color-scheme: dark)').matches
    rootClasses,  \* document.documentElement.classList
    listening,    \* the 'change' handler is registered on the media query
    effMode,      \* the value of `mode` the effects last ran for (Null: never)
    authLoading,  \* useAuth().loading as Layout reads it
    user,         \* useAuth().user as Layout reads it (Null when logged out)
    clusterStore, \* localStorage entry 'infradar-cluster'
    cpMounted,    \* a ClusterProvider instance is mounted
    clusters,     \* ClusterProvider state `clusters`
    selectedId,   \* ClusterProvider state `selectedId`
    cLoading,     \* ClusterProvider state `loading`
    cInflight,    \* getClusters calls of the mounted instance still in flight
    cStale,       \* getClusters calls of unmounted instances still in flight
    cLast,        \* how the mounted instance's latest getClusters call settled
    page,         \* the id-parameterised page that is mounted
    routeId,      \* its useParams().id (Null when undefined)
    pLoading,     \* the page's state `loading`
    pData,        \* the page's state `data`
    pInflight,    \* the page's fetches still in flight
    pSettled,     \* how the page's fetches settled, oldest first
    dVersion,     \* the version of ClusterDetail that is open ("closed": none)
    dLoading,     \* ClusterDetail state `loading`
    dCluster,     \* ClusterDetail state `cluster`
    dSnapshot,    \* ClusterDetail state `snapshot`
    dSecurity,    \* ClusterDetail state `security`
    dGroups,      \* the Promise.all groups still pending, as a bag
    dDone,        \* the group whose .then ran last (NoGroup: none yet)
    nStep,        \* NewCluster state `step`
    nName,        \* NewCluster state `name`
    nProvider,    \* NewCluster state `provider`
    nError,       \* NewCluster state `error`
    nLoading,     \* NewCluster state `loading`
    nCluster,     \* NewCluster state `cluster`
    nCall,        \* a createCluster call is in flight
    nLast,        \* how the latest createCluster call settled
    rPassword,    \* Register state `password`, by its length
    rError,       \* Register state `error`
    rLoading,     \* Register state `loading`
    rCall,        \* the latest submission: its fate, its password length, its error
    lClusters,    \* Clusters state `clusters`
    lLoading,     \* Clusters state `loading`
    lFetch,       \* Clusters and its getClusters call: unmounted, pending, settled
    lDeletes,     \* the ids of the deleteCluster calls in flight, as a bag
    lLast,        \* what handleDelete did last, and for which id
    bId,          \* BlastRadius: useParams().id
    bSnapshot,    \* BlastRadius state `snapshot`
    bType,        \* BlastRadius state `targetType`
    bName,        \* BlastRadius state `targetName`
    bNs,          \* BlastRadius state `targetNs`
    bResult,      \* BlastRadius state `result`
    bLoading,     \* BlastRadius state `loading`
    bFetch,       \* BlastRadius and its getLatestSnapshot call
    bCall,        \* the latest getBlastRadius call: its fate and its query
    bDirty,       \* BlastRadius rendered and its effects have not run yet
    bChoice,      \* the option last chosen in the namespace dropdown ("none")
    sId,          \* Simulator: useParams().id
    sSnapshot,    \* Simulator state `snapshot`
    sType,        \* Simulator state `simType`
    sNodeName,    \* Simulator state `nodeName`
    sResult,      \* Simulator state `result`
    sRunning,     \* Simulator state `running`
    sFetch,       \* Simulator and its getLatestSnapshot call
    sCall,        \* the latest simulate call: its fate, its type, its node_name
    mMounted,     \* AppMesh: not mounted yet ("no"), mounted ("yes"), unmounted ("gone")
    mData,        \* AppMesh state `data`, by the number of the data set (0: null)
    mTick,        \* ticks the layout loop of the current data set has run
    mFrames,      \* animation frames requested and neither run nor cancelled
    mAnimRef,     \* animRef.current
    mStaleTicks   \* ticks run by loops of earlier data sets or after unmount

vars == << token, href, reqs, themeStore, tMounted, mode, resolved, sysDark,
           rootClasses, listening, effMode, authLoading, user, clusterStore,
           cpMounted, clusters, selectedId, cLoading, cInflight, cStale, cLast,
           page, routeId, pLoading, pData, pInflight, pSettled,
           dVersion, dLoading, dCluster, dSnapshot, dSecurity, dGroups, dDone,
           nStep, nName, nProvider, nError, nLoading, nCluster, nCall, nLast,
           rPassword, rError, rLoading, rCall,
           lClusters, lLoading, lFetch, lDeletes, lLast,
           bId, bSnapshot, bType, bName, bNs, bResult, bLoading, bFetch, bCall,
           bDirty, bChoice,
           sId, sSnapshot, sType, sNodeName, sResult, sRunning, sFetch, sCall,
           mMounted, mData, mTick, mFrames, mAnimRef, mStaleTicks >>

apiVars == << token, href, reqs >>
themeVars == << themeStore, tMounted, mode, resolved, sysDark, rootClasses,
                listening, effMode >>
shellVars == << authLoading, user, clusterStore, cpMounted, clusters,
                selectedId, cLoading, cInflight, cStale, cLast >>
pageVars == << page, routeId, pLoading, pData, pInflight, pSettled >>

\* What an action of `part` leaves alone among the parts that follow the
\* first four; "none" for the actions of the first four.
LaterFrame(part) ==
    /\ part # "detail" =>
          UNCHANGED << dVersion, dLoading, dCluster, dSnapshot, dSecurity, dGroups,
                       dDone >>
    /\ part # "new" =>
          UNCHANGED << nStep, nName, nProvider, nError, nLoading, nCluster, nCall,
                       nLast >>
    /\ part # "register" => UNCHANGED << rPassword, rError, rLoading, rCall >>
    /\ part # "list" => UNCHANGED << lClusters, lLoading, lFetch, lDeletes, lLast >>
    /\ part # "blast" =>
          UNCHANGED << bId, bSnapshot, bType, bName, bNs, bResult, bLoading, bFetch,
                       bCall, bDirty, bChoice >>
    /\ part # "sim" =>
          UNCHANGED << sId, sSnapshot, sType, sNodeName, sResult, sRunning, sFetch,
                       sCall >>
    /\ part # "mesh" =>
          UNCHANGED << mMounted, mData, mTick, mFrames, mAnimRef, mStaleTicks >>
    /\ part # "none" => UNCHANGED << reqs, themeVars, shellVars, pageVars >>

\* What the actions of one of the first four parts leave alone in the others.
apiFrame == UNCHANGED << themeVars, shellVars, pageVars >> /\ LaterFrame("none")
themeFrame == UNCHANGED << apiVars, shellVars, pageVars >> /\ LaterFrame("none")
shellFrame == UNCHANGED << reqs, themeVars, pageVars >> /\ LaterFrame("none")
pageFrame == UNCHANGED << reqs, themeVars, shellVars >> /\ LaterFrame("none")

\* JavaScript null / undefined, and a localStorage entry that is absent.
Null == "<null>"

(***************************************************************************)
(* Bounds of the model.                                                    *)
(***************************************************************************)
MaxReq == 2        \* concurrent calls of request() by direct callers
MaxFetches == 2    \* fetches one page or provider instance has in flight

(***************************************************************************)
(* JSON response bodies, as far as request() and the pages look at them:   *)
(* whether the text parses, the kind of value, its `error` field and the   *)
(* number of entries of its payload (alerts, events, total_paths, points). *)
(***************************************************************************)
ErrorFields == { Null, "", "cluster not found" }

JInvalid == [ kind |-> "invalid", error |-> Null, items |-> 0 ]
JNull == [ kind |-> "null", error |-> Null, items |-> 0 ]
JArray(n) == [ kind |-> "array", error |-> Null, items |-> n ]
JObject(e, n) == [ kind |-> "object", error |-> e, items |-> n ]

\* Bodies of answers to the calls of direct callers (payload not looked at).
Bodies == { JInvalid, JNull, JArray(0) } \cup { JObject(e, 0) : e \in ErrorFields }

\* Bodies of answers to a page's fetch.
PageBodies == { JInvalid, JNull }
              \cup { JArray(n) : n \in 0..1 }
              \cup { JObject(e, n) : e \in { Null, "cluster not found" }, n \in 0..1 }

Statuses == { 200, 401, 500 }

Tokens == { "", "tokA" }

(***************************************************************************)
(* request(): src/lib/api.ts                                               *)
(***************************************************************************)
NoHeader == << >>

AuthHeaderAlways(tok) == IF tok = Null THEN NoHeader ELSE << "Bearer", tok >>

\* ...(token ? { Authorization: `Bearer ${token}` } : {})
AuthHeader(tok) == IF tok \in { Null, "" } THEN NoHeader ELSE << "Bearer", tok >>

IsOk(status) == status \in 200..299

TokenAfterKept(status, tok) == tok

\* if (res.status === 401) localStorage.removeItem('token')
TokenAfter(status, tok) == IF status = 401 THEN Null ELSE tok

\* if (res.status === 401) window.location.href = '/login'
HrefAfter(status, h) == IF status = 401 THEN "/login" ELSE h

\* the body is read by res.json() on every path but the 401 one
ReadsBody(status) == status # 401

TypeErrorMessage == "Cannot read properties of null (reading 'error')"

\* const err = await res.json().catch(() => ({ error: 'Request failed' }));
\* throw new Error(err.error || 'Request failed');
ErrorMessage(body) ==
    IF body.kind = "invalid" THEN "Request failed"
    ELSE IF body.kind = "null" THEN TypeErrorMessage
    ELSE IF body.error \in { Null, "" } THEN "Request failed"
    ELSE body.error

\* What the promise returned by request() settles to, given the response.
Outcome(status, body) ==
    IF status = 401
      THEN [ result |-> "rejected", message |-> "Unauthorized", value |-> JNull ]
    ELSE IF ~IsOk(status)
      THEN [ result |-> "rejected", message |-> ErrorMessage(body), value |-> JNull ]
    ELSE IF body.kind = "invalid"
      THEN [ result |-> "rejected", message |-> "SyntaxError", value |-> JNull ]
    ELSE [ result |-> "resolved", message |-> "", value |-> body ]

ReqIds == 1..MaxReq

IdleReq == [ pc |-> "idle", authz |-> NoHeader, status |-> 0, body |-> JNull,
             bodyRead |-> FALSE, result |-> "pending", message |-> "" ]

\* request() up to `await fetch(...)`: the token is read and the headers built.
RequestStart(r) ==
    /\ reqs[r].pc \in { "idle", "settled" }
    /\ reqs' = [ reqs EXCEPT ![r] =
                   [ IdleReq EXCEPT !.pc = "fetching", !.authz = AuthHeader(token) ] ]
    /\ UNCHANGED << token, href >>
    /\ apiFrame

\* request() from the response on.
RequestSettle(r, status, body) ==
    /\ reqs[r].pc = "fetching"
    /\ LET o == Outcome(status, body) IN
       reqs' = [ reqs EXCEPT ![r] =
                   [ @ EXCEPT !.pc = "settled", !.status = status, !.body = body,
                              !.bodyRead = ReadsBody(status),
                              !.result = o.result, !.message = o.message ] ]
    /\ token' = TokenAfter(status, token)
    /\ href' = HrefAfter(status, href)
    /\ apiFrame

\* fetch() itself rejects (no response): request() rejects with that error.
RequestNetworkError(r) ==
    /\ reqs[r].pc = "fetching"
    /\ reqs' = [ reqs EXCEPT ![r] =
                   [ @ EXCEPT !.pc = "settled", !.result = "rejected",
                              !.message = "Failed to fetch" ] ]
    /\ UNCHANGED << token, href >>
    /\ apiFrame

\* A login stores the token it was given and the app leaves the login page.
StoreToken(t) ==
    /\ token' = t
    /\ href' = "/"
    /\ UNCHANGED reqs
    /\ apiFrame

ApiIdle ==
    /\ token \in { Null } \cup Tokens
    /\ href = "/"
    /\ reqs = [ r \in ReqIds |-> IdleReq ]

NextApi ==
    \/ \E r \in ReqIds : RequestStart(r)
    \/ \E r \in ReqIds, status \in Statuses, body \in Bodies :
          RequestSettle(r, status, body)
    \/ \E r \in ReqIds : RequestNetworkError(r)
    \/ \E t \in Tokens : StoreToken(t)

(***************************************************************************)
(* ThemeProvider: src/hooks/useTheme.tsx                                   *)
(***************************************************************************)
Modes == { "dark", "light", "auto" }

\* What localStorage may hold under 'infradar-theme' when the app starts:
\* nothing, a mode, or a value no version of setMode wrote.
StoredThemes == { Null, "dark", "light", "auto", "system", "" }

ThemeClasses == { "dark", "light" }

\* getSystemTheme()
getSystemTheme(matches) == IF matches THEN "dark" ELSE "light"

\* resolveTheme(mode)
resolveTheme(m, matches) == IF m = "auto" THEN getSystemTheme(matches) ELSE m

applyThemeAddOnly(r, classes) == classes \cup { r }

\* applyTheme(resolved): classList.toggle(c, force) adds c when force holds
\* and removes it otherwise.
applyTheme(r, classes) ==
    LET afterDark == IF r = "dark" THEN classes \cup { "dark" }
                                   ELSE classes \ { "dark" }
    IN  IF r = "light" THEN afterDark \cup { "light" } ELSE afterDark \ { "light" }

InitialModeDark(saved) == IF saved = "light" THEN "light" ELSE "dark"

\* the initialiser of useState<ThemeMode>
InitialMode(saved) == IF saved \in { "dark", "light", "auto" } THEN saved ELSE "auto"

ListensAlways(m) == TRUE

\* the second effect returns early unless mode is 'auto'
ListensFor(m) == m = "auto"

\* The first render of a ThemeProvider (the app starts, or is reloaded).
ThemeMount ==
    /\ ~tMounted
    /\ tMounted' = TRUE
    /\ mode' = InitialMode(themeStore)
    /\ resolved' = resolveTheme(mode', sysDark)
    /\ effMode' = Null
    /\ UNCHANGED << themeStore, sysDark, rootClasses, listening >>
    /\ themeFrame

\* setMode(m)
setMode(m) ==
    /\ tMounted
    /\ mode' = m
    /\ themeStore' = m
    /\ UNCHANGED << tMounted, resolved, sysDark, rootClasses, listening, effMode >>
    /\ themeFrame

\* The two effects with dependency [mode], run after a render in which mode
\* differs from the one they last ran for: the second effect's cleanup, then
\* the first effect, then the second.
ThemeRunEffects ==
    /\ tMounted
    /\ effMode # mode
    /\ resolved' = resolveTheme(mode, sysDark)
    /\ rootClasses' = applyTheme(resolved', rootClasses)
    /\ listening' = ListensFor(mode)
    /\ effMode' = mode
    /\ UNCHANGED << themeStore, tMounted, mode, sysDark >>
    /\ themeFrame

\* The system colour scheme changes; the media query reports it to the
\* registered handler, if any.
SystemThemeChange ==
    /\ sysDark' = ~sysDark
    /\ IF listening
         THEN /\ resolved' = getSystemTheme(sysDark')
              /\ rootClasses' = applyTheme(resolved', rootClasses)
         ELSE UNCHANGED << resolved, rootClasses >>
    /\ UNCHANGED << themeStore, tMounted, mode, listening, effMode >>
    /\ themeFrame

\* The page is closed or reloaded: the provider and its listener are gone,
\* the new document starts with whatever classes its markup gives the root.
ThemeUnload ==
    /\ tMounted
    /\ tMounted' = FALSE
    /\ listening' = FALSE
    /\ effMode' = Null
    /\ mode' = "auto"
    /\ resolved' = "dark"
    /\ \E cs \in SUBSET ThemeClasses : rootClasses' = cs
    /\ UNCHANGED << themeStore, sysDark >>
    /\ themeFrame

ThemeIdle ==
    /\ themeStore \in StoredThemes
    /\ tMounted = FALSE
    /\ mode = "auto"
    /\ resolved = "dark"
    /\ sysDark \in BOOLEAN
    /\ rootClasses \in SUBSET ThemeClasses
    /\ listening = FALSE
    /\ effMode = Null

NextTheme ==
    \/ ThemeMount
    \/ \E m \in Modes : setMode(m)
    \/ ThemeRunEffects
    \/ SystemThemeChange
    \/ ThemeUnload

(***************************************************************************)
(* Layout: src/components/Layout.tsx                                       *)
(***************************************************************************)
Users == { "u1" }

LayoutUserFirst(loading, u) ==
    IF u = Null THEN "redirect" ELSE IF loading THEN "spinner" ELSE "protected"

\* What Layout returns: the spinner, <Navigate to="/login" />, or the
\* ClusterProvider with the Sidebar and the routed page inside.
Layout(loading, u) ==
    IF loading THEN "spinner" ELSE IF u = Null THEN "redirect" ELSE "protected"

(***************************************************************************)
(* ClusterProvider: hooks/useCluster (src/unnamed/part_000).  A cluster is *)
(* represented by its id, a list of clusters by the sequence of their ids. *)
(***************************************************************************)
ClusterIds == { "a", "b" }

\* The lists GET /api/v1/clusters may answer with.
ClusterLists == { << >>, << "a" >>, << "b" >>, << "a", "b" >>, << "b", "a" >> }

\* What localStorage may hold under 'infradar-cluster' when the app starts:
\* nothing, or the id of a cluster that may since have been deleted.
StoredClusters == { Null, "a", "gone" }

Ids(list) == { list[i] : i \in 1..Len(list) }

\* const selected = clusters.find(c => c.id === selectedId) || null
Selected(list, sid) == IF sid \in Ids(list) THEN sid ELSE Null

\* if (!saved || !list.find(c => c.id === saved))
NeedsAutoSelect(saved, list) == saved \in { Null, "" } \/ saved \notin Ids(list)

\* The first render of a ClusterProvider and its mount effect.
ClusterMountState ==
    /\ cpMounted' = TRUE
    /\ clusters' = << >>
    /\ selectedId' = clusterStore
    /\ cLoading' = TRUE
    /\ cInflight' = 1
    /\ cLast' = "none"
    /\ UNCHANGED << clusterStore, cStale >>

\* The provider is unmounted: its state is gone, its calls stay in flight.
ClusterUnmountState ==
    /\ cpMounted' = FALSE
    /\ clusters' = << >>
    /\ selectedId' = Null
    /\ cLoading' = TRUE
    /\ cInflight' = 0
    /\ cStale' = cStale + cInflight
    /\ cLast' = "none"
    /\ UNCHANGED clusterStore

\* useAuth() gives Layout a new (loading, user); Layout renders again, which
\* mounts or unmounts the ClusterProvider it wraps the protected content in.
AuthChange(l, u) ==
    /\ << l, u >> # << authLoading, user >>
    /\ authLoading' = l
    /\ user' = u
    /\ IF Layout(l, u) = "protected" /\ ~cpMounted
         THEN ClusterMountState
       ELSE IF Layout(l, u) # "protected" /\ cpMounted
         THEN cStale + cInflight <= MaxFetches /\ ClusterUnmountState
       ELSE UNCHANGED << clusterStore, cpMounted, clusters, selectedId, cLoading,
                         cInflight, cStale, cLast >>
    /\ UNCHANGED << token, href >>
    /\ shellFrame

\* refresh(): fetchClusters() once more
refresh ==
    /\ cpMounted
    /\ cInflight < MaxFetches
    /\ cInflight' = cInflight + 1
    /\ UNCHANGED << authLoading, user, clusterStore, cpMounted, clusters,
                    selectedId, cLoading, cStale, cLast, token, href >>
    /\ shellFrame

\* selectCluster(id)
selectCluster(id) ==
    /\ cpMounted
    /\ selectedId' = id
    /\ clusterStore' = id
    /\ UNCHANGED << authLoading, user, cpMounted, clusters, cLoading, cInflight,
                    cStale, cLast, token, href >>
    /\ shellFrame

\* api.getClusters() resolves with `list` in the mounted provider:
\* the .then handler, then .finally.
ClustersResolve(list) ==
    /\ cpMounted
    /\ cInflight > 0
    /\ cInflight' = cInflight - 1
    /\ clusters' = list
    /\ IF Len(list) > 0 /\ NeedsAutoSelect(clusterStore, list)
         THEN selectedId' = list[1] /\ clusterStore' = list[1]
         ELSE UNCHANGED << selectedId, clusterStore >>
    /\ cLoading' = FALSE
    /\ cLast' = "resolved"
    /\ UNCHANGED << authLoading, user, cpMounted, cStale, token, href >>
    /\ shellFrame

\* api.getClusters() rejects in the mounted provider: .catch(() => {}), then
\* .finally.  request() has cleared the token and redirected on a 401.
ClustersReject(status) ==
    /\ cpMounted
    /\ cInflight > 0
    /\ cInflight' = cInflight - 1
    /\ cLoading' = FALSE
    /\ cLast' = "rejected"
    /\ token' = TokenAfter(status, token)
    /\ href' = HrefAfter(status, href)
    /\ UNCHANGED << authLoading, user, clusterStore, cpMounted, clusters,
                    selectedId, cStale >>
    /\ shellFrame

\* A call made by a provider that has since been unmounted resolves: its
\* state setters do nothing, its localStorage.setItem still runs.
StaleClustersResolve(list) ==
    /\ cStale > 0
    /\ cStale' = cStale - 1
    /\ IF Len(list) > 0 /\ NeedsAutoSelect(clusterStore, list)
         THEN clusterStore' = list[1]
         ELSE UNCHANGED clusterStore
    /\ UNCHANGED << authLoading, user, cpMounted, clusters, selectedId, cLoading,
                    cInflight, cLast, token, href >>
    /\ shellFrame

\* A call made by a provider that has since been unmounted rejects.
StaleClustersReject(status) ==
    /\ cStale > 0
    /\ cStale' = cStale - 1
    /\ token' = TokenAfter(status, token)
    /\ href' = HrefAfter(status, href)
    /\ UNCHANGED << authLoading, user, clusterStore, cpMounted, clusters,
                    selectedId, cLoading, cInflight, cLast >>
    /\ shellFrame

\* The ClusterProvider of another tab of the dashboard persists a selection
\* (its auto-selection or its selectCluster): localStorage is shared.
OtherTabPersists(id) ==
    /\ clusterStore' = id
    /\ UNCHANGED << authLoading, user, cpMounted, clusters, selectedId, cLoading,
                    cInflight, cStale, cLast, token, href >>
    /\ shellFrame

ShellIdle ==
    /\ authLoading = TRUE
    /\ user = Null
    /\ clusterStore \in StoredClusters
    /\ cpMounted = FALSE
    /\ clusters = << >>
    /\ selectedId = Null
    /\ cLoading = TRUE
    /\ cInflight = 0
    /\ cStale = 0
    /\ cLast = "none"

NextShell ==
    \/ \E l \in BOOLEAN, u \in { Null } \cup Users : AuthChange(l, u)
    \/ refresh
    \/ \E id \in ClusterIds : selectCluster(id)
    \/ \E list \in ClusterLists : ClustersResolve(list)
    \/ \E status \in Statuses \ { 200 } : ClustersReject(status)
    \/ \E list \in ClusterLists : StaleClustersResolve(list)
    \/ \E status \in Statuses \ { 200 } : StaleClustersReject(status)
    \/ \E id \in ClusterIds : OtherTabPersists(id)

(***************************************************************************)
(* The id-parameterised pages: Alerts, Events, Heatmap, Costs, AttackPaths,*)
(* Timeline, ClusterMap, GoldenSignals, AppMesh.  Each holds `data` and    *)
(* `loading` and fetches once per route id in an effect.                   *)
(***************************************************************************)
Pages == { "Alerts", "Events", "Heatmap", "Costs", "AttackPaths", "Timeline",
           "ClusterMap", "GoldenSignals", "AppMesh" }

RouteIds == { "c1", "c2" }

\* useState<T | null>(null), and useState<TimelinePoint[]>([]) in Timeline
InitialData(p) == IF p = "Timeline" THEN JArray(0) ELSE JNull

\* The bodies the page's endpoint answers with: Timeline's is an array, the
\* others' an object; either may be null or unparsable.
PageBodiesFor(p) ==
    { b \in PageBodies :
        b.kind \in { "invalid", "null", IF p = "Timeline" THEN "array" ELSE "object" } }

LoadingAfterThenOnly(result, loading) == IF result = "resolved" THEN FALSE ELSE loading

\* .finally(() => setLoading(false))
LoadingAfter(result, loading) == FALSE

\* .then(setData).catch(() => null)
DataAfter(outcome, data) == IF outcome.result = "resolved" THEN outcome.value ELSE data

\* What the page returns: the spinner, its empty state, or its content.
\* Reading .length of a null `data` throws while rendering.
PageRender(p, loading, data) ==
    IF loading THEN "spinner"
    ELSE IF p = "Timeline"
      THEN IF data.kind = "null" THEN "crash"
           ELSE IF data.items = 0 THEN "empty" ELSE "content"
    ELSE IF data.kind = "null" THEN "empty"
    ELSE IF p \in { "Alerts", "Events", "AttackPaths" } /\ data.items = 0 THEN "empty"
    ELSE "content"

\* The page is routed to: its first render and its effect.
PageOpen(p, id) ==
    /\ page = Null
    /\ page' = p
    /\ routeId' = id
    /\ pLoading' = TRUE
    /\ pData' = InitialData(p)
    /\ pInflight' = IF id = Null THEN 0 ELSE 1
    /\ pSettled' = << >>
    /\ UNCHANGED << token, href >>
    /\ pageFrame

\* The route id changes under the mounted page: the effect runs again.
PageRouteChange(id) ==
    /\ page # Null
    /\ id # routeId
    /\ pInflight + Len(pSettled) < MaxFetches
    /\ routeId' = id
    /\ pInflight' = pInflight + 1
    /\ UNCHANGED << page, pLoading, pData, pSettled, token, href >>
    /\ pageFrame

\* The server answers one of the page's fetches: request() settles, then the
\* page's .then / .catch / .finally handlers run.
PageFetchSettle(status, body) ==
    /\ page # Null
    /\ pInflight > 0
    /\ LET o == Outcome(status, body) IN
         /\ pData' = DataAfter(o, pData)
         /\ pLoading' = LoadingAfter(o.result, pLoading)
         /\ pSettled' = Append(pSettled, [ ok |-> o.result = "resolved", value |-> o.value ])
    /\ pInflight' = pInflight - 1
    /\ token' = TokenAfter(status, token)
    /\ href' = HrefAfter(status, href)
    /\ UNCHANGED << page, routeId >>
    /\ pageFrame

\* fetch() itself rejects: the same handlers run on the rejection.
PageFetchNetworkError ==
    /\ page # Null
    /\ pInflight > 0
    /\ pLoading' = LoadingAfter("rejected", pLoading)
    /\ pSettled' = Append(pSettled, [ ok |-> FALSE, value |-> JNull ])
    /\ pInflight' = pInflight - 1
    /\ UNCHANGED << page, routeId, pData, token, href >>
    /\ pageFrame

PageIdle ==
    /\ page = Null
    /\ routeId = Null
    /\ pLoading = TRUE
    /\ pData = JNull
    /\ pInflight = 0
    /\ pSettled = << >>

NextPages ==
    \/ \E p \in Pages, id \in { Null } \cup RouteIds : PageOpen(p, id)
    \/ \E id \in RouteIds : PageRouteChange(id)
    \/ \E status \in Statuses, body \in PageBodiesFor(page) : PageFetchSettle(status, body)
    \/ PageFetchNetworkError

(***************************************************************************)
(* ClusterDetail: pages/ClusterDetail, in its two versions                 *)
(* (src/pages/Register.tsx lines 104-137 and 558-588).                     *)
(***************************************************************************)
DetailVersions == { "withSecurity", "withoutSecurity" }

NoGroup == [ c |-> "none", s |-> "none", sec |-> "none" ]

\* The requests of one Promise.all([...]) when they have just been sent.
NewGroup(v) ==
    [ c |-> "pending", s |-> "pending",
      sec |-> IF v = "withSecurity" THEN "pending" ELSE "absent" ]

Slots == { "c", "s", "sec" }

\* How one request of a group settles: rejected, resolved with null, or
\* resolved with the object asked for.
SlotResults == { "failed", "null", "value" }

PromiseRaceResolves(g) == \E k \in Slots : g[k] \notin { "pending", "absent" }

\* Promise.all resolves once every element has; with .catch(() => null) on
\* each request an element resolves whenever its request settles.
PromiseAllResolves(g) == \A k \in Slots : g[k] # "pending"

\* api.getX(id).catch(() => null): the value the element resolves to
Contribution(slot) == IF slot = "value" THEN "value" ELSE Null

\* What ClusterDetail returns.
DetailRender(loading, cluster) ==
    IF loading THEN "spinner" ELSE IF cluster = Null THEN "notfound" ELSE "content"

\* The effect of ClusterDetail with a defined id: the requests are sent.
\* The groups in flight are independent of each other, so they are kept as a
\* bag.
DetailEffect(v) == dGroups' = dGroups (+) SetToBag({ NewGroup(v) })

\* ClusterDetail is routed to: its first render and its effect.
DetailOpen(v, hasId) ==
    /\ dVersion = "closed"
    /\ dVersion' = v
    /\ dLoading' = TRUE
    /\ dCluster' = Null
    /\ dSnapshot' = Null
    /\ dSecurity' = Null
    /\ IF hasId THEN DetailEffect(v) ELSE UNCHANGED dGroups
    /\ UNCHANGED << dDone, token, href >>
    /\ LaterFrame("detail")

\* The route id changes under the mounted page: the effect runs again.
DetailRouteChange ==
    /\ dVersion # "closed"
    /\ BagCardinality(dGroups) < MaxFetches
    /\ DetailEffect(dVersion)
    /\ UNCHANGED << dVersion, dLoading, dCluster, dSnapshot, dSecurity, dDone,
                    token, href >>
    /\ LaterFrame("detail")

\* One request of a group g in flight settles; when that resolves the
\* group's Promise.all, its .then handler runs.
DetailSettle(g, k, res, status) ==
    /\ BagIn(g, dGroups)
    /\ g[k] = "pending"
    \* a status that is not ok rejects; an ok one may still reject in res.json()
    /\ ~IsOk(status) => res = "failed"
    /\ LET after == [ g EXCEPT ![k] = res ] IN
         IF PromiseAllResolves(after)
           THEN /\ dGroups' = dGroups (-) SetToBag({ g })
                /\ dCluster' = Contribution(after.c)
                /\ dSnapshot' = Contribution(after.s)
                /\ dSecurity' = IF after.sec = "absent" THEN dSecurity
                                ELSE Contribution(after.sec)
                /\ dLoading' = FALSE
                /\ dDone' = after
           ELSE /\ dGroups' = (dGroups (-) SetToBag({ g })) (+) SetToBag({ after })
                /\ UNCHANGED << dCluster, dSnapshot, dSecurity, dLoading, dDone >>
    /\ token' = TokenAfter(status, token)
    /\ href' = HrefAfter(status, href)
    /\ UNCHANGED dVersion
    /\ LaterFrame("detail")

DetailIdle ==
    /\ dVersion = "closed"
    /\ dLoading = TRUE
    /\ dCluster = Null
    /\ dSnapshot = Null
    /\ dSecurity = Null
    /\ dGroups = EmptyBag
    /\ dDone = NoGroup

NextDetail ==
    \/ \E v \in DetailVersions, hasId \in BOOLEAN : DetailOpen(v, hasId)
    \/ DetailRouteChange
    \/ \E g \in BagToSet(dGroups), k \in Slots, res \in SlotResults,
          status \in Statuses : DetailSettle(g, k, res, status)

(***************************************************************************)
(* NewCluster: src/pages/NewCluster.tsx                                    *)
(***************************************************************************)
\* The Cluster that POST /api/v1/clusters answers with (lib/api.ts declares
\* the answer as Cluster, whose api_key is a string).
CreatedCluster == [ kind |-> "object", error |-> Null, items |-> 0, api_key |-> "key1" ]

\* Bodies of the answers to createCluster: the created cluster or text that
\* does not parse when the status is ok, anything when it is not.
CreateBodies(status) == IF IsOk(status) THEN { CreatedCluster, JInvalid } ELSE Bodies

NoOutcome == [ result |-> "none", message |-> "", value |-> JNull ]

\* what fetch() rejecting makes of request()
NetworkError == [ result |-> "rejected", message |-> "Failed to fetch", value |-> JNull ]

StepAfterAlways(outcome, step) == 2

\* setStep(2) after the await, skipped when it throws
StepAfter(outcome, step) == IF outcome.result = "resolved" THEN 2 ELSE step

\* setCluster(c) after the await, skipped when it throws
ClusterAfter(outcome, cluster) ==
    IF outcome.result = "resolved" THEN outcome.value ELSE cluster

\* catch (err) { setError(err.message || 'Failed to create cluster') }
CreateErrorAfter(outcome, error) ==
    IF outcome.result = "resolved" THEN error
    ELSE IF outcome.message = "" THEN "Failed to create cluster"
    ELSE outcome.message

ClusterNames == { "", "prod", "staging" }

\* '' and the values of const providers
ProviderValues == { "", "eks", "gke", "aks" }

\* the name input of step 1 is edited
setName(n) ==
    /\ nStep = 1
    /\ nName' = n
    /\ UNCHANGED << nStep, nProvider, nError, nLoading, nCluster, nCall, nLast,
                    token, href >>
    /\ LaterFrame("new")

\* a provider button of step 1 is clicked
setProvider(v) ==
    /\ nStep = 1
    /\ v # ""
    /\ nProvider' = v
    /\ UNCHANGED << nStep, nName, nError, nLoading, nCluster, nCall, nLast,
                    token, href >>
    /\ LaterFrame("new")

\* handleCreate up to its await.  The form is rendered in step 1 only and its
\* submit button is disabled while loading or without a name or a provider.
handleCreate ==
    /\ nStep = 1
    /\ ~nLoading
    /\ nName # ""
    /\ nProvider # ""
    /\ nError' = ""
    /\ nLoading' = TRUE
    /\ nCall' = TRUE
    /\ UNCHANGED << nStep, nName, nProvider, nCluster, nLast, token, href >>
    /\ LaterFrame("new")

\* The rest of handleCreate, run when its call has settled as `outcome`.
CreateContinue(outcome) ==
    /\ nCluster' = ClusterAfter(outcome, nCluster)
    /\ nStep' = StepAfter(outcome, nStep)
    /\ nError' = CreateErrorAfter(outcome, nError)
    /\ nLoading' = FALSE
    /\ nCall' = FALSE
    /\ nLast' = outcome
    /\ UNCHANGED << nName, nProvider >>

\* createCluster is answered.
CreateSettle(status, body) ==
    /\ nCall
    /\ body \in CreateBodies(status)
    /\ CreateContinue(Outcome(status, body))
    /\ token' = TokenAfter(status, token)
    /\ href' = HrefAfter(status, href)
    /\ LaterFrame("new")

\* createCluster gets no answer.
CreateNetworkError ==
    /\ nCall
    /\ CreateContinue(NetworkError)
    /\ UNCHANGED << token, href >>
    /\ LaterFrame("new")

NewIdle ==
    /\ nStep = 1
    /\ nName = ""
    /\ nProvider = ""
    /\ nError = ""
    /\ nLoading = FALSE
    /\ nCluster = JNull
    /\ nCall = FALSE
    /\ nLast = NoOutcome

NextNew ==
    \/ \E n \in ClusterNames : setName(n)
    \/ \E v \in ProviderValues : setProvider(v)
    \/ handleCreate
    \/ \E status \in Statuses, body \in Bodies \cup { CreatedCluster } :
          CreateSettle(status, body)
    \/ CreateNetworkError

(***************************************************************************)
(* Register: src/pages/Register.tsx lines 6-30                             *)
(***************************************************************************)
MaxPasswordLen == 7

MinPasswordLen == 6

\* Messages of the errors useAuth().register rejects with ('' for an error
\* without one).
RegisterMessages == { "", "Request failed", "email already registered" }

NoSubmit == [ state |-> "none", len |-> 0, message |-> "" ]

PasswordTooShortOrMin(len) == len <= MinPasswordLen

\* if (password.length < 6)
PasswordTooShort(len) == len < MinPasswordLen

\* catch (err) { setError(err.message || 'Registration failed') }
RegisterErrorOf(message) == IF message = "" THEN "Registration failed" ELSE message

\* the password input is edited
setPassword(len) ==
    /\ rPassword' = len
    /\ UNCHANGED << rError, rLoading, rCall, token, href >>
    /\ LaterFrame("register")

\* handleSubmit up to its return or its await.  The submit button is disabled
\* while loading.
handleSubmit ==
    /\ ~rLoading
    /\ IF PasswordTooShort(rPassword)
         THEN /\ rError' = "Password must be at least 6 characters"
              /\ rCall' = [ state |-> "refused", len |-> rPassword, message |-> "" ]
              /\ UNCHANGED rLoading
         ELSE /\ rError' = ""
              /\ rLoading' = TRUE
              /\ rCall' = [ state |-> "pending", len |-> rPassword, message |-> "" ]
    /\ UNCHANGED << rPassword, token, href >>
    /\ LaterFrame("register")

\* register() resolves: the rest of handleSubmit.
RegisterResolve ==
    /\ rCall.state = "pending"
    /\ rLoading' = FALSE
    /\ rCall' = [ rCall EXCEPT !.state = "resolved" ]
    /\ UNCHANGED << rPassword, rError, token, href >>
    /\ LaterFrame("register")

\* register() rejects with an error of message m: the rest of handleSubmit.
RegisterReject(m) ==
    /\ rCall.state = "pending"
    /\ rError' = RegisterErrorOf(m)
    /\ rLoading' = FALSE
    /\ rCall' = [ rCall EXCEPT !.state = "rejected", !.message = m ]
    /\ UNCHANGED << rPassword, token, href >>
    /\ LaterFrame("register")

RegisterIdle ==
    /\ rPassword = 0
    /\ rError = ""
    /\ rLoading = FALSE
    /\ rCall = NoSubmit

NextRegister ==
    \/ \E len \in 0..MaxPasswordLen : setPassword(len)
    \/ handleSubmit
    \/ RegisterResolve
    \/ \E m \in RegisterMessages : RegisterReject(m)

(***************************************************************************)
(* Clusters: pages/Clusters (src/unnamed/part_006)                         *)
(***************************************************************************)
\* The lists GET /api/v1/clusters may answer Clusters with, by cluster id;
\* an id may come twice.
ListedClusters == ClusterLists \cup { << "a", "a" >>, << "a", "b", "a" >> }

NoEvent == [ event |-> "none", id |-> Null ]

\* prev.filter(c => c.id !== id)
WithoutId(list, id) == SelectSeq(list, LAMBDA c : c # id)

ListAfterDeleteAlways(outcome, list, id) == WithoutId(list, id)

\* await api.deleteCluster(id); setClusters(...), skipped when the await throws
ListAfterDelete(outcome, list, id) ==
    IF outcome.result = "resolved" THEN WithoutId(list, id) ELSE list

\* Clusters is routed to: its first render and its effect.
ListOpen ==
    /\ lFetch = "unmounted"
    /\ lFetch' = "pending"
    /\ lClusters' = << >>
    /\ lLoading' = TRUE
    /\ UNCHANGED << lDeletes, lLast, token, href >>
    /\ LaterFrame("list")

\* getClusters is answered: .then(setClusters).catch(() => {}).finally(...)
ListFetchSettle(status, list) ==
    /\ lFetch = "pending"
    /\ lFetch' = "settled"
    /\ lClusters' = IF IsOk(status) THEN list ELSE lClusters
    /\ lLoading' = FALSE
    /\ token' = TokenAfter(status, token)
    /\ href' = HrefAfter(status, href)
    /\ UNCHANGED << lDeletes, lLast >>
    /\ LaterFrame("list")

\* handleDelete up to its return or its await, for a cluster of the displayed
\* list; `confirmed` is what confirm() returns.
handleDelete(id, confirmed) ==
    /\ lFetch = "settled"
    /\ id \in Ids(lClusters)
    /\ BagCardinality(lDeletes) < MaxFetches
    /\ IF confirmed
         THEN /\ lDeletes' = lDeletes (+) SetToBag({ id })
              /\ lLast' = [ event |-> "sent", id |-> id ]
         ELSE /\ lLast' = [ event |-> "cancelled", id |-> id ]
              /\ UNCHANGED lDeletes
    /\ UNCHANGED << lClusters, lLoading, lFetch, token, href >>
    /\ LaterFrame("list")

\* The rest of handleDelete, run when its call has settled as `outcome`.
DeleteContinue(id, outcome) ==
    /\ BagIn(id, lDeletes)
    /\ lDeletes' = lDeletes (-) SetToBag({ id })
    /\ lClusters' = ListAfterDelete(outcome, lClusters, id)
    /\ lLast' = [ event |-> outcome.result, id |-> id ]
    /\ UNCHANGED << lLoading, lFetch >>

\* deleteCluster(id) is answered.
DeleteSettle(id, status, body) ==
    /\ DeleteContinue(id, Outcome(status, body))
    /\ token' = TokenAfter(status, token)
    /\ href' = HrefAfter(status, href)
    /\ LaterFrame("list")

\* deleteCluster(id) gets no answer.
DeleteNetworkError(id) ==
    /\ DeleteContinue(id, NetworkError)
    /\ UNCHANGED << token, href >>
    /\ LaterFrame("list")

ListIdle ==
    /\ lClusters = << >>
    /\ lLoading = TRUE
    /\ lFetch = "unmounted"
    /\ lDeletes = EmptyBag
    /\ lLast = NoEvent

NextList ==
    \/ ListOpen
    \/ \E status \in Statuses, list \in ListedClusters : ListFetchSettle(status, list)
    \/ \E id \in ClusterIds, confirmed \in BOOLEAN : handleDelete(id, confirmed)
    \/ \E id \in ClusterIds, status \in Statuses, body \in Bodies :
          DeleteSettle(id, status, body)
    \/ \E id \in ClusterIds : DeleteNetworkError(id)

(***************************************************************************)
(* BlastRadius: src/pages/AppMesh.tsx lines 535-660                        *)
(***************************************************************************)
\* useState<Snapshot | null>(null)
NoSnapshot == [ loaded |-> FALSE, nodes |-> << >>, pods |-> << >> ]

\* The snapshots getLatestSnapshot may answer with: the names of the nodes,
\* and the pods with their namespaces.
Snapshots ==
    { [ loaded |-> TRUE, nodes |-> << >>, pods |-> << >> ],
      [ loaded |-> TRUE, nodes |-> << "n1" >>, pods |-> << >> ],
      [ loaded |-> TRUE, nodes |-> << "n1", "n2" >>,
        pods |-> << [ name |-> "web", namespace |-> "kube-system" ],
                    [ name |-> "db", namespace |-> "default" ] >> ] }

\* The namespaces of the model in the order Array.prototype.sort() gives.
NsOrder == << "default", "kube-system" >>

namespacesUnsorted(snapshot) ==
    [ i \in 1..Len(snapshot.pods) |-> snapshot.pods[i].namespace ]

\* const namespaces = snapshot ? [...new Set(pods.map(p => p.namespace))].sort() : []
namespaces(snapshot) ==
    SelectSeq(NsOrder,
              LAMBDA ns : \E i \in 1..Len(snapshot.pods) : snapshot.pods[i].namespace = ns)

\* const pods = snapshot?.pods.filter(p => !targetNs || p.namespace === targetNs) || []
pods(snapshot, ns) == SelectSeq(snapshot.pods, LAMBDA q : ns = "" \/ q.namespace = ns)

\* snapshot?.nodes[0]?.name || '', and the same for a list of pods
FirstName(list) == IF Len(list) > 0 THEN list[1] ELSE ""

NamespaceArgAlways(type, ns) == ns

\* targetType === 'pod' ? targetNs : undefined
NamespaceArg(type, ns) == IF type = "pod" THEN ns ELSE Null

\* getBlastRadius: if (namespace) params.set('namespace', namespace)
QueryNamespace(arg) == IF arg \in { Null, "" } THEN Null ELSE arg

NoCall == [ state |-> "none", type |-> "", target |-> "", namespace |-> Null ]

BlastResults == { "r1", "r2" }

\* BlastRadius is routed to: its first render; its effects are still to run.
BlastOpen(id) ==
    /\ bFetch = "unmounted"
    /\ bId' = id
    /\ bFetch' = "rendered"
    /\ bDirty' = TRUE
    /\ UNCHANGED << bSnapshot, bType, bName, bNs, bResult, bLoading, bCall, bChoice,
                    token, href >>
    /\ LaterFrame("blast")

\* The effects run after a render: the [id] one on mount, the auto-select one
\* every time (its dependency `namespaces` is a new array in every render).
\* A state update makes the component render again.
BlastRunEffects ==
    /\ bDirty
    /\ bFetch' = IF bFetch # "rendered" THEN bFetch
                 ELSE IF bId = Null THEN "none" ELSE "pending"
    /\ IF bType = "pod" /\ bNs = "" /\ Len(namespaces(bSnapshot)) > 0
         THEN bNs' = namespaces(bSnapshot)[1] /\ bDirty' = TRUE
         ELSE bNs' = bNs /\ bDirty' = FALSE
    /\ UNCHANGED << bId, bSnapshot, bType, bName, bResult, bLoading, bCall, bChoice,
                    token, href >>
    /\ LaterFrame("blast")

\* getLatestSnapshot is answered: .then(...).catch(() => null)
BlastSnapshotSettle(status, snapshot) ==
    /\ bFetch = "pending"
    /\ bFetch' = "settled"
    /\ IF IsOk(status)
         THEN /\ bSnapshot' = snapshot
              /\ bName' = IF Len(snapshot.nodes) > 0 THEN snapshot.nodes[1] ELSE bName
              /\ bDirty' = TRUE
         ELSE UNCHANGED << bSnapshot, bName, bDirty >>
    /\ token' = TokenAfter(status, token)
    /\ href' = HrefAfter(status, href)
    /\ UNCHANGED << bId, bType, bNs, bResult, bLoading, bCall, bChoice >>
    /\ LaterFrame("blast")

\* The Node or the Pod button is clicked (events are handled with the effects
\* of the last render done).
setTargetType(type) ==
    /\ bFetch \notin { "unmounted", "rendered" }
    /\ ~bDirty
    /\ bType' = type
    /\ bName' = IF type = "node" THEN FirstName(bSnapshot.nodes) ELSE ""
    /\ bResult' = Null
    /\ bChoice' = "none"
    /\ bDirty' = TRUE
    /\ UNCHANGED << bId, bSnapshot, bNs, bLoading, bFetch, bCall, token, href >>
    /\ LaterFrame("blast")

\* An option of the namespace dropdown is chosen: '' is 'All'.
setTargetNs(ns) ==
    /\ bFetch \notin { "unmounted", "rendered" }
    /\ ~bDirty
    /\ bType = "pod"
    /\ ns = "" \/ \E i \in 1..Len(namespaces(bSnapshot)) : namespaces(bSnapshot)[i] = ns
    /\ bNs' = ns
    /\ bName' = ""
    /\ bChoice' = ns
    /\ bDirty' = TRUE
    /\ UNCHANGED << bId, bSnapshot, bType, bResult, bLoading, bFetch, bCall,
                    token, href >>
    /\ LaterFrame("blast")

\* An option of the target dropdown is chosen: '' is 'Select...'.
setTargetName(name) ==
    /\ bFetch \notin { "unmounted", "rendered" }
    /\ ~bDirty
    /\ \/ name = ""
       \/ bType = "node" /\ \E i \in 1..Len(bSnapshot.nodes) : bSnapshot.nodes[i] = name
       \/ bType = "pod" /\ \E i \in 1..Len(pods(bSnapshot, bNs)) :
                              pods(bSnapshot, bNs)[i].name = name
    /\ bName' = name
    /\ bDirty' = TRUE
    /\ UNCHANGED << bId, bSnapshot, bType, bNs, bResult, bLoading, bFetch, bCall,
                    bChoice, token, href >>
    /\ LaterFrame("blast")

\* analyze up to its return or its await.  The Analyze button is disabled
\* while loading or without a target name.
analyze ==
    /\ bFetch \notin { "unmounted", "rendered" }
    /\ ~bDirty
    /\ ~bLoading
    /\ bName # ""
    /\ IF bId = Null \/ bName = ""
         THEN UNCHANGED << bLoading, bCall, bDirty >>
         ELSE /\ bLoading' = TRUE
              /\ bCall' = [ state |-> "pending", type |-> bType, target |-> bName,
                            namespace |-> QueryNamespace(NamespaceArg(bType, bNs)) ]
              /\ bDirty' = TRUE
    /\ UNCHANGED << bId, bSnapshot, bType, bName, bNs, bResult, bFetch, bChoice,
                    token, href >>
    /\ LaterFrame("blast")

\* getBlastRadius settles (resolved with `result` when ok): the rest of analyze.
AnalyzeSettle(status, ok, result) ==
    /\ bCall.state = "pending"
    /\ ok => IsOk(status)
    /\ bResult' = IF ok THEN result ELSE bResult
    /\ bLoading' = FALSE
    /\ bCall' = [ bCall EXCEPT !.state = IF ok THEN "resolved" ELSE "rejected" ]
    /\ bDirty' = TRUE
    /\ token' = TokenAfter(status, token)
    /\ href' = HrefAfter(status, href)
    /\ UNCHANGED << bId, bSnapshot, bType, bName, bNs, bFetch, bChoice >>
    /\ LaterFrame("blast")

BlastIdle ==
    /\ bId = Null
    /\ bSnapshot = NoSnapshot
    /\ bType = "node"
    /\ bName = ""
    /\ bNs = ""
    /\ bResult = Null
    /\ bLoading = FALSE
    /\ bFetch = "unmounted"
    /\ bCall = NoCall
    /\ bDirty = FALSE
    /\ bChoice = "none"

NextBlast ==
    \/ \E id \in { Null, "a" } : BlastOpen(id)
    \/ BlastRunEffects
    \/ \E status \in Statuses, snapshot \in Snapshots : BlastSnapshotSettle(status, snapshot)
    \/ \E type \in { "node", "pod" } : setTargetType(type)
    \/ \E ns \in { "", "default", "kube-system" } : setTargetNs(ns)
    \/ \E name \in { "", "n1", "n2", "web", "db" } : setTargetName(name)
    \/ analyze
    \/ \E status \in Statuses, ok \in BOOLEAN, result \in BlastResults :
          AnalyzeSettle(status, ok, result)

(***************************************************************************)
(* Simulator: pages/Simulator (src/unnamed/part_004)                       *)
(***************************************************************************)
SimTypes == { "remove_node", "scale_down", "change_limits" }

SimResults == { "s1", "s2" }

\* case 'remove_node': params = { node_name: nodeName }
NodeNameParam(type, nodeName) == IF type = "remove_node" THEN nodeName ELSE Null

ResultAtStartKept(result) == result

\* setResult(null) before the request is sent
ResultAtStart(result) == Null

\* Simulator is routed to: its first render and its effect.
SimOpen(id) ==
    /\ sFetch = "unmounted"
    /\ sId' = id
    /\ sFetch' = IF id = Null THEN "none" ELSE "pending"
    /\ UNCHANGED << sSnapshot, sType, sNodeName, sResult, sRunning, sCall,
                    token, href >>
    /\ LaterFrame("sim")

\* getLatestSnapshot is answered: .then(...).catch(() => null)
SimSnapshotSettle(status, snapshot) ==
    /\ sFetch = "pending"
    /\ sFetch' = "settled"
    /\ IF IsOk(status)
         THEN /\ sSnapshot' = snapshot
              /\ sNodeName' = IF Len(snapshot.nodes) > 0 THEN snapshot.nodes[1]
                              ELSE sNodeName
         ELSE UNCHANGED << sSnapshot, sNodeName >>
    /\ token' = TokenAfter(status, token)
    /\ href' = HrefAfter(status, href)
    /\ UNCHANGED << sId, sType, sResult, sRunning, sCall >>
    /\ LaterFrame("sim")

\* a radio button of the simulation types is chosen
setSimType(type) ==
    /\ sFetch # "unmounted"
    /\ sType' = type
    /\ UNCHANGED << sId, sSnapshot, sNodeName, sResult, sRunning, sFetch, sCall,
                    token, href >>
    /\ LaterFrame("sim")

\* a node of the snapshot is chosen in the node dropdown
setNodeName(name) ==
    /\ sFetch # "unmounted"
    /\ sType = "remove_node"
    /\ \E i \in 1..Len(sSnapshot.nodes) : sSnapshot.nodes[i] = name
    /\ sNodeName' = name
    /\ UNCHANGED << sId, sSnapshot, sType, sResult, sRunning, sFetch, sCall,
                    token, href >>
    /\ LaterFrame("sim")

\* runSimulation up to its return or its await.  The Run button is disabled
\* while running.
runSimulation ==
    /\ sFetch # "unmounted"
    /\ ~sRunning
    /\ IF sId = Null
         THEN UNCHANGED << sRunning, sResult, sCall >>
         ELSE /\ sRunning' = TRUE
              /\ sResult' = ResultAtStart(sResult)
              /\ sCall' = [ state |-> "pending", type |-> sType,
                            target |-> NodeNameParam(sType, sNodeName),
                            namespace |-> Null ]
    /\ UNCHANGED << sId, sSnapshot, sType, sNodeName, sFetch, token, href >>
    /\ LaterFrame("sim")

\* simulate settles (resolved with `result` when ok): the rest of
\* runSimulation, whose two state updates make one render.
SimulateSettle(status, ok, result) ==
    /\ sCall.state = "pending"
    /\ ok => IsOk(status)
    /\ sResult' = IF ok THEN result ELSE sResult
    /\ sRunning' = FALSE
    /\ sCall' = [ sCall EXCEPT !.state = IF ok THEN "resolved" ELSE "rejected" ]
    /\ token' = TokenAfter(status, token)
    /\ href' = HrefAfter(status, href)
    /\ UNCHANGED << sId, sSnapshot, sType, sNodeName, sFetch >>
    /\ LaterFrame("sim")

SimIdle ==
    /\ sId = Null
    /\ sSnapshot = NoSnapshot
    /\ sType = "remove_node"
    /\ sNodeName = ""
    /\ sResult = Null
    /\ sRunning = FALSE
    /\ sFetch = "unmounted"
    /\ sCall = NoCall

NextSim ==
    \/ \E id \in { Null, "a" } : SimOpen(id)
    \/ \E status \in Statuses, snapshot \in Snapshots : SimSnapshotSettle(status, snapshot)
    \/ \E type \in SimTypes : setSimType(type)
    \/ \E name \in { "n1", "n2" } : setNodeName(name)
    \/ runSimulation
    \/ \E status \in Statuses, ok \in BOOLEAN, result \in SimResults :
          SimulateSettle(status, ok, result)

(***************************************************************************)
(* AppMesh, the force layout: src/pages/AppMesh.tsx lines 82-212           *)
(***************************************************************************)
MaxDataSets == 2

maxTicks == 300

\* useRef<number>(0): no frame requested yet
NoFrame == << 0, 0 >>

CancelNothing(frames, handle) == frames

\* cancelAnimationFrame(handle): a handle that is not pending is ignored
cancelAnimationFrame(frames, handle) == frames \ { handle }

\* if (tick < maxTicks), after tick++
SchedulesNext(tick) == tick < maxTicks

\* AppMesh is routed to: data is null, so the layout effect returns at once.
MeshOpen ==
    /\ mMounted = "no"
    /\ mMounted' = "yes"
    /\ UNCHANGED << mData, mTick, mFrames, mAnimRef, mStaleTicks, token, href >>
    /\ LaterFrame("mesh")

\* setData with a newly fetched data set: the cleanup of the layout effect of
\* the data set before it runs, then the effect itself.  A requested frame is
\* named by its loop and by the loop's `tick` when it was requested.
MeshSetData ==
    /\ mMounted = "yes"
    /\ mData < MaxDataSets
    /\ mData' = mData + 1
    /\ mTick' = 0
    /\ mAnimRef' = << mData + 1, 0 >>
    /\ mFrames' = (IF mData = 0 THEN mFrames
                   ELSE cancelAnimationFrame(mFrames, mAnimRef))
                  \cup { << mData + 1, 0 >> }
    /\ UNCHANGED << mMounted, mStaleTicks, token, href >>
    /\ LaterFrame("mesh")

\* The browser runs a requested frame: simulate(), in the closure of its loop.
MeshFrame(h) ==
    /\ h \in mFrames
    /\ LET tick == h[2] + 1
           live == mMounted = "yes" /\ h[1] = mData
       IN /\ mTick' = IF live THEN tick ELSE mTick
          /\ mStaleTicks' = IF live THEN mStaleTicks ELSE mStaleTicks + 1
          /\ IF SchedulesNext(tick)
               THEN /\ mAnimRef' = << h[1], tick >>
                    /\ mFrames' = (mFrames \ { h }) \cup { << h[1], tick >> }
               ELSE /\ mFrames' = mFrames \ { h }
                    /\ UNCHANGED mAnimRef
    /\ UNCHANGED << mMounted, mData, token, href >>
    /\ LaterFrame("mesh")

\* AppMesh unmounts: the cleanup of the layout effect runs, if it had started.
MeshUnmount ==
    /\ mMounted = "yes"
    /\ mMounted' = "gone"
    /\ mFrames' = IF mData = 0 THEN mFrames ELSE cancelAnimationFrame(mFrames, mAnimRef)
    /\ UNCHANGED << mData, mTick, mAnimRef, mStaleTicks, token, href >>
    /\ LaterFrame("mesh")

MeshIdle ==
    /\ mMounted = "no"
    /\ mData = 0
    /\ mTick = 0
    /\ mFrames = { }
    /\ mAnimRef = NoFrame
    /\ mStaleTicks = 0

NextMesh ==
    \/ MeshOpen
    \/ MeshSetData
    \/ \E h \in mFrames : MeshFrame(h)
    \/ MeshUnmount

\* The first four parts of the app, at rest.
FirstPartsIdle ==
    /\ ApiIdle /\ token = "tokA"
    /\ ThemeIdle /\ themeStore = Null /\ sysDark = FALSE /\ rootClasses = { }
    /\ ShellIdle /\ clusterStore = Null
    /\ PageIdle

\* The other parts of the app, at rest.
LaterPartsIdle ==
    /\ DetailIdle /\ NewIdle /\ RegisterIdle /\ ListIdle
    /\ BlastIdle /\ SimIdle /\ MeshIdle

(***************************************************************************)
(* Specifications: one per part of the app, the other parts at rest.       *)
(***************************************************************************)
InitApi == ApiIdle /\ ThemeIdle /\ themeStore = Null /\ sysDark = FALSE
           /\ rootClasses = { } /\ ShellIdle /\ clusterStore = Null /\ PageIdle
           /\ LaterPartsIdle

SpecApi == InitApi /\ [][NextApi]_vars

InitTheme == ThemeIdle /\ ApiIdle /\ token = Null /\ ShellIdle
             /\ clusterStore = Null /\ PageIdle /\ LaterPartsIdle

SpecTheme == InitTheme /\ [][NextTheme]_vars

InitShell == ShellIdle /\ ApiIdle /\ token = "tokA" /\ ThemeIdle /\ themeStore = Null
             /\ sysDark = FALSE /\ rootClasses = { } /\ PageIdle /\ LaterPartsIdle

SpecShell == InitShell /\ [][NextShell]_vars

InitPages == PageIdle /\ ApiIdle /\ token = "tokA" /\ ThemeIdle /\ themeStore = Null
             /\ sysDark = FALSE /\ rootClasses = { } /\ ShellIdle /\ clusterStore = Null
             /\ LaterPartsIdle

SpecPages == InitPages /\ [][NextPages]_vars

\* Every part at rest, a token stored.
InitLater == FirstPartsIdle /\ LaterPartsIdle

SpecDetail == InitLater /\ [][NextDetail]_vars

SpecNew == InitLater /\ [][NextNew]_vars

SpecRegister == InitLater /\ [][NextRegister]_vars

SpecList == InitLater /\ [][NextList]_vars

SpecBlast == InitLater /\ [][NextBlast]_vars

SpecSim == InitLater /\ [][NextSim]_vars

\* The browser runs every requested frame that stays requested.
SpecMesh == InitLater /\ [][NextMesh]_vars /\ WF_vars(\E h \in mFrames : MeshFrame(h))

(***************************************************************************)
(* Properties of request()                                                 *)
(***************************************************************************)
\* request r was answered in this step
Answered(r) == reqs[r].pc = "fetching" /\ reqs'[r].pc = "settled" /\ reqs'[r].status # 0

\* request r was sent in this step
Sent(r) == reqs[r].pc # "fetching" /\ reqs'[r].pc = "fetching"

\* C1: whenever a call is answered with status 401, the 'token' entry is
\* removed, the location becomes '/login' and the call rejects with
\* 'Unauthorized' without having read the body, whether or not a token was
\* stored before.
Unauthorized401 ==
    [][ \A r \in ReqIds :
          (Answered(r) /\ reqs'[r].status = 401) =>
              /\ token' = Null
              /\ href' = "/login"
              /\ reqs'[r].result = "rejected"
              /\ reqs'[r].message = "Unauthorized"
              /\ ~reqs'[r].bodyRead ]_vars

\* C1 witness: a call sent with a token was answered 401 and the token is gone.
Unauthorized401Reached ==
    \E r \in ReqIds :
        /\ reqs[r].pc = "settled"
        /\ reqs[r].status = 401
        /\ reqs[r].authz # NoHeader
        /\ reqs[r].message = "Unauthorized"
        /\ token = Null
        /\ href = "/login"

\* C2: a call carries 'Authorization: Bearer <token>' for the token stored
\* at the moment it is sent, exactly when that entry is non-empty; so while
\* no token is stored (as after a 401) every call goes out without the header.
BearerFromStoredToken ==
    [][ \A r \in ReqIds :
          Sent(r) =>
              /\ (token \notin { Null, "" }) => reqs'[r].authz = << "Bearer", token >>
              /\ (token \in { Null, "" }) => reqs'[r].authz = NoHeader ]_vars

\* C2 witness: a 401 has cleared the token and sent the app to '/login', and
\* a call made since is in flight without the header, next to the answered one.
NoHeaderAfter401Reached ==
    \E r, q \in ReqIds :
        /\ reqs[r].pc = "settled" /\ reqs[r].status = 401 /\ reqs[r].authz # NoHeader
        /\ reqs[q].pc = "fetching" /\ reqs[q].authz = NoHeader
        /\ token = Null

\* C3: a call answered with a non-2xx status other than 401 rejects with the
\* body's `error` field when that is a non-empty string and with 'Request
\* failed' when the body is not valid JSON or carries no such field; the
\* token and the location are left alone.
ErrorMessageFromBody ==
    [][ \A r \in ReqIds :
          (Answered(r) /\ reqs'[r].status # 401 /\ ~IsOk(reqs'[r].status)) =>
              LET b == reqs'[r].body IN
              /\ reqs'[r].result = "rejected"
              /\ (b.kind = "object" /\ b.error \notin { Null, "" })
                    => reqs'[r].message = b.error
              /\ (b.kind = "invalid" \/ b.error = Null)
                    => reqs'[r].message = "Request failed"
              /\ token' = token
              /\ href' = href ]_vars

(***************************************************************************)
(* Properties of the ThemeProvider                                         *)
(***************************************************************************)
\* the effects of the latest render have run
EffectsRan == tMounted /\ effMode = mode

\* C5: setMode(m) stores m under 'infradar-theme' and a provider mounted
\* afterwards starts with mode m; a missing or any other stored value gives
\* the initial mode 'auto'; mounting never writes the entry.
ThemeRoundTrip ==
    /\ [](tMounted => /\ themeStore \in Modes => mode = themeStore
                      /\ themeStore \notin Modes => mode = "auto")
    /\ [][ /\ (tMounted /\ tMounted' /\ (mode' # mode \/ themeStore' # themeStore))
                => (themeStore' = mode' /\ mode' \in Modes)
           /\ (~tMounted /\ tMounted')
                => /\ themeStore' = themeStore
                   /\ themeStore \in Modes => mode' = themeStore
                   /\ themeStore \notin Modes => mode' = "auto" ]_vars

\* C5 witness: a provider mounted after a reload shows the mode an earlier
\* setMode stored, different from the default.
ThemeRoundTripReached ==
    tMounted /\ effMode = Null /\ themeStore = "light" /\ mode = "light"

\* C6: once the effects have run, resolved is the mode when that is 'dark'
\* or 'light' and the system preference when it is 'auto', and the root
\* element carries exactly that one of the classes 'dark' and 'light'.
ResolvedMatchesMode ==
    EffectsRan =>
        /\ mode \in { "dark", "light" } => resolved = mode
        /\ mode = "auto" => resolved = (IF sysDark THEN "dark" ELSE "light")
        /\ rootClasses \cap { "dark", "light" } = { resolved }

\* C6 witness: in auto mode, after the system went dark, the root is dark.
ResolvedMatchesModeReached ==
    EffectsRan /\ mode = "auto" /\ listening /\ sysDark /\ rootClasses = { "dark" }

\* C7: with the effects run, a change of the system colour scheme changes
\* resolved and the root class exactly when the mode is 'auto'; the listener
\* is registered exactly in 'auto' mode; and the effects of a switch to
\* 'auto' resolve to the system preference of that moment.
SystemChangeOnlyInAuto ==
    /\ [](EffectsRan => (listening <=> mode = "auto"))
    /\ [][ /\ (EffectsRan /\ sysDark' # sysDark) =>
                 /\ mode = "auto" => (resolved' # resolved /\ rootClasses' # rootClasses)
                 /\ mode # "auto" => (resolved' = resolved /\ rootClasses' = rootClasses)
           /\ (tMounted /\ effMode # mode /\ effMode' = mode' /\ mode' = "auto") =>
                 resolved' = (IF sysDark' THEN "dark" ELSE "light") ]_vars

\* C7 witness: the mode is 'dark' with its effects run, the system prefers
\* light, and resolved and the root class are still dark.
SystemChangeIgnoredReached ==
    EffectsRan /\ mode = "dark" /\ ~listening /\ ~sysDark
    /\ resolved = "dark" /\ rootClasses = { "dark" }

(***************************************************************************)
(* Properties of Layout and the ClusterProvider                            *)
(***************************************************************************)
\* C4: the protected content (here: the ClusterProvider around the Sidebar
\* and the page) is rendered only while loading is false and user is
\* non-null; with loading false and user null Layout renders the redirect
\* to '/login'; while loading it renders the spinner and nothing else.
LayoutGuard ==
    /\ cpMounted <=> (~authLoading /\ user # Null)
    /\ Layout(authLoading, user) = "protected" <=> (~authLoading /\ user # Null)
    /\ (~authLoading /\ user = Null) => Layout(authLoading, user) = "redirect"
    /\ authLoading => Layout(authLoading, user) = "spinner"

\* C4 witness: auth is still loading while no user is known; no protected
\* content is mounted although one was before.
LayoutSpinnerReached ==
    authLoading /\ user = Null /\ ~cpMounted /\ cStale > 0

\* a getClusters call of the mounted provider resolved in this step
ClustersResolved ==
    cpMounted /\ cpMounted' /\ cInflight' = cInflight - 1 /\ cLast' = "resolved"

\* C8: when a fetch succeeds with a non-empty list and the persisted id is
\* absent or not in the list, the first cluster becomes the selection and is
\* persisted; when the persisted id is in the list the selection is
\* unchanged; so right after any such fetch `selected` is a non-null element
\* of the list.
SelectedAfterFetch ==
    [][ (ClustersResolved /\ Len(clusters') > 0) =>
          /\ (clusterStore = Null \/ clusterStore \notin Ids(clusters'))
                => (selectedId' = clusters'[1] /\ clusterStore' = clusters'[1])
          /\ (clusterStore \in Ids(clusters'))
                => (selectedId' = selectedId /\ clusterStore' = clusterStore)
          /\ Selected(clusters', selectedId') \in Ids(clusters') ]_vars

(***************************************************************************)
(* Properties of the id-parameterised pages                                *)
(***************************************************************************)
\* C9: the all-clear empty states of AttackPaths ('No Attack Paths Found')
\* and Alerts ('No Alerts') are shown only when the page's fetch succeeded
\* and reported no attack paths, respectively no alerts.
AllClearOnlyOnSuccess ==
    (page \in { "AttackPaths", "Alerts" } /\ PageRender(page, pLoading, pData) = "empty")
        => \E i \in 1..Len(pSettled) :
              /\ pSettled[i].ok
              /\ pSettled[i].value.kind = "object"
              /\ pSettled[i].value.items = 0

\* C10: on each of the pages loading is true until a fetch settles, is
\* false from the moment one settles, on success and on failure alike, and
\* never becomes true again; when the page's fetch fails, data keeps its
\* initial null/empty value and the page renders its empty state.
LoadingEndsWhenFetchSettles ==
    /\ []((page # Null /\ pSettled = << >>) => pLoading)
    /\ [][ /\ Len(pSettled') > Len(pSettled) => ~pLoading'
           /\ (page # Null /\ ~pLoading) => ~pLoading'
           /\ (pSettled = << >> /\ Len(pSettled') = 1 /\ ~pSettled'[1].ok) =>
                 /\ pData' = (IF page = "Timeline" THEN JArray(0) ELSE JNull)
                 /\ PageRender(page', pLoading', pData') = "empty" ]_vars

\* C10 witness: the single fetch of the Costs page failed; the page has
\* stopped loading and shows its empty state.
FailedFetchShowsEmptyReached ==
    /\ page = "Costs" /\ routeId # Null /\ pInflight = 0
    /\ Len(pSettled) = 1 /\ ~pSettled[1].ok
    /\ ~pLoading /\ pData = JNull
    /\ PageRender(page, pLoading, pData) = "empty"

(***************************************************************************)
(* Properties of ClusterDetail                                             *)
(***************************************************************************)
\* some request of group g has not settled
HasPending(g) == \E k \in Slots : g[k] = "pending"

\* C11: loading becomes false only after every request of the mounted page
\* has settled, and it does become false when any or all of them failed; each
\* failed request contributes null without affecting the others, and
\* 'Cluster not found' is shown exactly when the cluster value is null.
DetailSettlesAll ==
    /\ ~dLoading => (dDone # NoGroup /\ ~HasPending(dDone))
    /\ \A g \in BagToSet(dGroups) : HasPending(g)
    /\ dDone # NoGroup =>
          /\ ~dLoading
          /\ dCluster = (IF dDone.c = "value" THEN "value" ELSE Null)
          /\ dSnapshot = (IF dDone.s = "value" THEN "value" ELSE Null)
          /\ dVersion = "withSecurity" =>
                dSecurity = (IF dDone.sec = "value" THEN "value" ELSE Null)
          /\ (DetailRender(dLoading, dCluster) = "notfound") <=> (dDone.c # "value")
    /\ (DetailRender(dLoading, dCluster) = "notfound") <=> (~dLoading /\ dCluster = Null)

\* C11 witness: the cluster request failed, the others answered, and the page
\* left loading with the snapshot kept and 'Cluster not found' shown.
DetailOneFailedReached ==
    /\ dVersion = "withSecurity"
    /\ ~dLoading
    /\ dDone.c = "failed"
    /\ dDone.s = "value"
    /\ dDone.sec = "value"
    /\ dSnapshot = "value"
    /\ dCluster = Null
    /\ DetailRender(dLoading, dCluster) = "notfound"

ShortPasswordRefused ==
    /\ [] (rCall.state = "refused" <=> (rCall.state # "none" /\ rCall.len < 6))
    /\ [] (rCall.state = "refused" =>
              rError = "Password must be at least 6 characters" /\ ~rLoading)
    /\ [] (rLoading <=> rCall.state = "pending")
    /\ [] (rCall.state = "pending" => rError = "")
    /\ [] (rCall.state = "rejected" =>
              rError = (IF rCall.message = "" THEN "Registration failed"
                        ELSE rCall.message))
    /\ [][ rCall'.state = "refused" => rCall.state # "pending" ]_vars

\* C13 witness: a submission with a 6-character password was sent and
\* rejected by an error without a message.
RegisterFallbackReached ==
    /\ rCall.state = "rejected"
    /\ rCall.len = 6
    /\ rCall.message = ""
    /\ rError = "Registration failed"
    /\ ~rLoading

(***************************************************************************)
(* Properties of Clusters                                                  *)
(***************************************************************************)
\* C14: handleDelete removes a cluster from the displayed list only after the
\* user confirmed the dialog and deleteCluster for that id resolved, and then
\* removes exactly the entries with that id; if the user cancels no request is
\* sent, and if the request fails the displayed list is unchanged.
DeleteOnlyWhenResolved ==
    [][ /\ (lFetch = "settled" /\ lClusters' # lClusters) =>
              /\ lLast'.event = "resolved"
              /\ BagIn(lLast'.id, lDeletes)
              /\ \A i \in 1..Len(lClusters') : lClusters'[i] # lLast'.id
              /\ lClusters' = SelectSeq(lClusters, LAMBDA c : c # lLast'.id)
        /\ BagCardinality(lDeletes') > BagCardinality(lDeletes) =>
              lLast'.event = "sent" /\ lClusters' = lClusters
        /\ lLast'.event = "cancelled" =>
              lDeletes' = lDeletes /\ lClusters' = lClusters
        /\ (lLast'.event = "rejected" /\ lDeletes' # lDeletes) =>
              lClusters' = lClusters
        /\ (lLast'.event = "resolved" /\ lDeletes' # lDeletes) =>
              lClusters' = SelectSeq(lClusters, LAMBDA c : c # lLast'.id) ]_vars

\* C14 witness: a resolved delete of a left only b displayed, after a delete
\* that was answered 401 had left the list as it was.
DeletedBothEntriesReached ==
    /\ lClusters = << "b" >>
    /\ lLast = [ event |-> "resolved", id |-> "a" ]
    /\ lDeletes = EmptyBag
    /\ token = Null

(***************************************************************************)
(* Properties of BlastRadius                                               *)
(***************************************************************************)
\* the namespaces of the pods of a snapshot
PodNamespaces(snapshot) ==
    { snapshot.pods[i].namespace : i \in 1..Len(snapshot.pods) }

\* the alphabetically first of a non-empty set of namespaces of the model
AlphabeticallyFirst(nss) == IF "default" \in nss THEN "default" ELSE "kube-system"

AllStaysSelected ==
    (bType = "pod" /\ bChoice = "") =>
        /\ bNs = ""
        /\ pods(bSnapshot, bNs) = bSnapshot.pods

\* C17: analyze sends a request only when the route id and targetName are
\* non-empty; the namespace is passed only when the target type is 'pod' and
\* is in the query only when non-empty; loading is true from the start of the
\* request until it settles and false afterwards, on success and failure
\* alike; a failure leaves the result held before unchanged.
AnalyzeSendsGuarded ==
    /\ [] (bLoading <=> bCall.state = "pending")
    /\ [][ /\ (bCall.state # "pending" /\ bCall'.state = "pending") =>
                 /\ bId # Null
                 /\ bName # ""
                 /\ bLoading'
                 /\ bCall'.type = bType
                 /\ bCall'.target = bName
                 /\ bCall'.namespace =
                       (IF bType = "pod" /\ bNs # "" THEN bNs ELSE Null)
           /\ (bCall.state = "pending" /\ bCall'.state # "pending") => ~bLoading'
           /\ (bCall.state = "pending" /\ bCall'.state = "rejected") =>
                 bResult' = bResult ]_vars

\* C17 witness: a node analysis failed; its query had no namespace although
\* targetNs holds one, and the result of the analysis before it is kept.
NodeAnalysisFailedReached ==
    /\ bCall.state = "rejected"
    /\ bCall.type = "node"
    /\ bCall.namespace = Null
    /\ bNs # ""
    /\ bResult \in BlastResults
    /\ ~bLoading

RemoveNodeNamesANode ==
    [][ (sCall.state # "pending" /\ sCall'.state = "pending"
            /\ sCall'.type = "remove_node") =>
          /\ sCall'.target # ""
          /\ sSnapshot.loaded
          /\ \E i \in 1..Len(sSnapshot.nodes) : sSnapshot.nodes[i] = sCall'.target ]_vars

(***************************************************************************)
(* Properties of the AppMesh force layout                                  *)
(***************************************************************************)
\* C19: the layout loop terminates: for one loaded data set it runs exactly
\* 300 ticks when not interrupted and requests no frame after the 300th; when
\* the component unmounts or the data changes before that, the pending frame
\* is cancelled and no further tick of the old loop runs.
LayoutLoopTerminates ==
    /\ [] (mTick <= 300)
    /\ [] (\A h \in mFrames : mMounted = "yes" /\ h[1] = mData /\ h[2] = mTick
                                /\ h[2] < 300)
    /\ [] (Cardinality(mFrames) <= 1)
    /\ [] ((mMounted = "yes" /\ mData > 0 /\ mFrames = { }) => mTick = 300)
    /\ [] (mStaleTicks = 0)
    /\ [][ (mData' # mData \/ mMounted' = "gone") => mFrames \cap mFrames' = { } ]_vars
    /\ <>[] (mFrames = { })

\* C19 witness: the loop of the first data set was cut off by the second
\* data set, whose own loop has run its 300 ticks and stopped.
SecondLoopFinishedReached ==
    /\ mMounted = "yes"
    /\ mData = 2
    /\ mTick = 300
    /\ mFrames = { }
    /\ mAnimRef = << 2, 299 >>

====
